---- MODULE Spec2Model ----
(***************************************************************************)
(* Authentication core of the social-media backend: the users table with   *)
(* its unique indexes, session-token issuance (generateJWT) and            *)
(* verification (JWTAuthMiddleware), the /auth handlers (Register, Signup, *)
(* SignIn, FirebaseLogin), the protected /profile handlers and the         *)
(* protected handlers that change or delete a comment.                     *)
(*                                                                         *)
(* Every repository call is one atomic step of the worker that serves the  *)
(* request; the code between two repository calls belongs to the step of   *)
(* the call that follows it.  The Age column carries no behaviour and is   *)
(* left out of the rows.                                                   *)
(***************************************************************************)
EXTENDS Integers, FiniteSets, Sequences, TLC

\* ---------------------------------------------------------------- bounds
MaxReqs == 2          \* requests accepted in one run
MaxTime == 73         \* the clock stops here (hours)
MaxStoreReqs == 3     \* requests accepted in one run of SpecStore

\* ------------------------------------------------------ program constants
TokenTTLHours == 72   \* time.Hour * 72
StatusOK == 200
StatusCreated == 201
StatusNoContent == 204
StatusBadRequest == 400
StatusUnauthorized == 401
StatusForbidden == 403
StatusNotFound == 404
StatusConflict == 409
StatusInternalServerError == 500

DefaultSecret == "supersecretjwtkey"
Workers == {1, 2}                    \* requests served at the same time

\* ------------------------------------------------------------ value sets
Emails == {"a@x.com", "b@x.com"}
UIDs == {"s1", "s2"}
Passwords == {"password1", "password2"}
Absent == "<absent>"                 \* a claim / header that is not there
SignupName == "Ann"
RegisterName == "Reg"
ClaimNames == {Absent, "Fay"}
EnvSecrets == {"", "envsecret"}      \* os.Getenv("JWT_SECRET")
AttackerSecret == "othersecret"

\* ------------------------------------------------------------- passwords
\* string(hashedPassword); the zero value "" of User.Password is NoHash
NoHash == [alg |-> "none", of |-> ""]

GenerateFromPassword(pw) == [alg |-> "bcrypt", of |-> pw]

\* bcrypt.CompareHashAndPassword: nil only for a bcrypt hash of this password
CompareHashAndPassword(hash, pw) ==
    IF hash.alg = "bcrypt" /\ hash.of = pw THEN "nil" ELSE "mismatch"

\* ------------------------------------------------------------------ rows
\* models.User as the auth handlers fill it (Name, Email, Password,
\* FirebaseUID), with gorm.Model: deleted_at set <=> deleted, and the
\* counters the domain handlers keep (default:0)
NewRow(id, name, email, password, fuid) ==
    [id |-> id, name |-> name, email |-> email, password |-> password,
     firebase_uid |-> fuid, deleted |-> FALSE,
     followers_count |-> 0, following_count |-> 0, posts_count |-> 0]

NoUser == [id |-> 0, name |-> "", email |-> "", password |-> NoHash,
           firebase_uid |-> "", deleted |-> FALSE,
           followers_count |-> 0, following_count |-> 0, posts_count |-> 0]

\* json tags of models.User: Password is json:"-"
UserJSON(u) == [id |-> u.id, name |-> u.name, email |-> u.email,
                firebase_uid |-> u.firebase_uid]
NoUserJSON == UserJSON(NoUser)

\* ErrRecordNotFound
ErrNotFound == "record not found"
ErrDuplicate == "duplicate key value violates unique constraint"

\* (mutant) the table has no unique index
UniqueViolation_NoIndex(rows, u) == FALSE

\* uniqueIndex on email and on firebase_uid: the index covers every row of
\* the table (soft-deleted ones too) and every value, the empty string too
UniqueViolation(rows, u) ==
    \E r \in rows : r.id # u.id /\
        (r.email = u.email \/ r.firebase_uid = u.firebase_uid)

\* db.Where(col = ?).First(&user): soft-deleted rows are not seen
Live(rows) == {r \in rows : ~r.deleted}

\* (mutant) the lookup's error check is inverted: it never finds a row
Found_Never(matches) == [err |-> ErrNotFound, user |-> NoUser]

Found(matches) ==
    IF matches = {}
    THEN [err |-> ErrNotFound, user |-> NoUser]
    ELSE [err |-> "nil",
          user |-> CHOOSE r \in matches : \A q \in matches : r.id <= q.id]

GetUserByEmail(rows, email) == Found({r \in Live(rows) : r.email = email})

GetUserByFirebaseUID(rows, fuid) ==
    Found({r \in Live(rows) : r.firebase_uid = fuid})

GetUserByID(rows, id) == Found({r \in Live(rows) : r.id = id})

\* db.Create(user): the insert fails on a unique index; the row gets the
\* next value of the id sequence
CreateUser(rows, u) ==
    IF UniqueViolation(rows, u)
    THEN [err |-> ErrDuplicate, rows |-> rows]
    ELSE [err |-> "nil", rows |-> rows \cup {u}]

\* db.Save(user): writes every column of the row with user's primary key
UpdateUser(rows, u) ==
    IF UniqueViolation(rows, u)
    THEN [err |-> ErrDuplicate, rows |-> rows]
    ELSE [err |-> "nil", rows |-> {r \in rows : r.id # u.id} \cup {u}]

\* db.Delete(&models.User{}, id): a soft delete
DeleteUserRow(rows, id) ==
    {IF r.id = id /\ ~r.deleted THEN [r EXCEPT !.deleted = TRUE] ELSE r : r \in rows}

\* what a repository call returns while the database cannot be reached:
\* the driver's error, through result.Error, and nothing read or written
ErrStorage == "dial tcp: connect: connection refused"

LookupVia(up, g) == IF up THEN g ELSE [err |-> ErrStorage, user |-> NoUser]

WriteVia(up, rows, c) == IF up THEN c ELSE [err |-> ErrStorage, rows |-> rows]

\* -------------------------------------------------------------- comments
\* models.Comment with gorm.Model; PostID names a document of the posts
\* collection, which carries the counter comments_count
Posts == {"p1"}
CommentIDs == {1, 2}
NewContent == "edited"

NewComment(id, post, user, content) ==
    [id |-> id, post_id |-> post, user_id |-> user, content |-> content,
     deleted |-> FALSE]
NoComment == [id |-> 0, post_id |-> "", user_id |-> 0, content |-> "",
              deleted |-> FALSE]

\* db.First(&comment, id)
GetCommentByID(cms, id) ==
    LET m == {c \in cms : c.id = id /\ ~c.deleted}
    IN  IF m = {} THEN [err |-> ErrNotFound, comment |-> NoComment]
        ELSE [err |-> "nil", comment |-> CHOOSE c \in m : TRUE]

\* db.Save(comment)
UpdateCommentRow(cms, c) == {q \in cms : q.id # c.id} \cup {c}

\* db.Delete(&models.Comment{}, id): a soft delete
DeleteCommentRow(cms, id) ==
    {IF c.id = id /\ ~c.deleted THEN [c EXCEPT !.deleted = TRUE] ELSE c : c \in cms}

\* UpdateOne with $inc comments_count -1
DecrementCommentsCount(cnt, post) ==
    [q \in DOMAIN cnt |-> IF q = post THEN cnt[q] - 1 ELSE cnt[q]]

\* ------------------------------------------------------- session tokens
\* A compact JWS: header.alg, the claims, and an HMAC that binds a key to
\* the signed claims.  wf = FALSE is a string that is no JWS at all.
NoClaims == [user_id |-> 0, email |-> "", iat |-> 0, exp |-> 0]

MakeToken(alg, claims, key) ==
    [wf |-> TRUE, alg |-> alg, claims |-> claims,
     sig |-> [key |-> key, over |-> claims]]

NoToken == [wf |-> FALSE, alg |-> "", claims |-> NoClaims,
            sig |-> [key |-> "", over |-> NoClaims]]
Garbage == [wf |-> FALSE, alg |-> "garbage", claims |-> NoClaims,
            sig |-> [key |-> "", over |-> NoClaims]]

\* os.Getenv("JWT_SECRET") with the fallback, in NewAuthHandler
HandlerSecret(env) == IF env = "" THEN DefaultSecret ELSE env

\* (mutant) the middleware's fallback secret is not the handler's
MiddlewareSecret_OtherDefault(env) == IF env = "" THEN "secret" ELSE env

\* the same lookup in the middleware, done on every request
MiddlewareSecret(env) == IF env = "" THEN DefaultSecret ELSE env

\* AuthHandler.generateJWT
generateJWT(user, secret, t) ==
    MakeToken("HS256",
              [user_id |-> user.id, email |-> user.email,
               iat |-> t, exp |-> t + TokenTTLHours],
              secret)

\* jwt.ErrSignatureInvalid, the package-level error value
ErrSignatureInvalid == [type |-> "errorString", flags |-> {}]
NoError == [type |-> "nil", flags |-> {}]
ValidationError(flags) == [type |-> "*ValidationError", flags |-> flags]

\* RegisteredClaims.Valid: exp must lie after now, iat not after now
ClaimsFlags(claims, t) ==
    (IF t < claims.exp THEN {} ELSE {"Expired"})
    \cup (IF t >= claims.iat THEN {} ELSE {"IssuedAt"})

\* (mutant) the signature is not compared
SignatureFlags_Unchecked(tok, key) == {}

\* SigningMethodHMAC.Verify
SignatureFlags(tok, key) ==
    IF tok.sig.key = key /\ tok.sig.over = tok.claims THEN {} ELSE {"SignatureInvalid"}

\* jwt.ParseWithClaims with the middleware's key function: the key function
\* refuses every method that is not HMAC
ParseWithClaims(tok, key, t) ==
    IF ~tok.wf
    THEN [err |-> ValidationError({"Malformed"}), valid |-> FALSE, claims |-> NoClaims]
    ELSE IF tok.alg # "HS256"
    THEN [err |-> ValidationError({"Unverifiable"}), valid |-> FALSE, claims |-> tok.claims]
    ELSE LET flags == ClaimsFlags(tok.claims, t) \cup SignatureFlags(tok, key)
         IN  IF flags = {}
             THEN [err |-> NoError, valid |-> TRUE, claims |-> tok.claims]
             ELSE [err |-> ValidationError(flags), valid |-> FALSE, claims |-> tok.claims]

\* ------------------------------------------------------ request context
ContextKeys == {"user", "user_claims", "user_id"}
NilValue == [type |-> "nil", claims |-> NoClaims, n |-> 0]
ClaimsValue(claims) == [type |-> "*JwtCustomClaims", claims |-> claims, n |-> 0]
EmptyContext == [k \in ContextKeys |-> NilValue]

\* strings.ToLower on the scheme word
ToLower(s) == IF s \in {"Bearer", "bearer", "BEARER"} THEN "bearer"
              ELSE IF s \in {"Basic", "basic"} THEN "basic" ELSE s

\* An Authorization header as strings.Split(header, " ") sees it: n parts,
\* parts[0] = scheme, parts[1] = cred; n = 0 is the empty (missing) header
NoHeader == [n |-> 0, scheme |-> "", cred |-> NoToken]
Header(n, scheme, cred) == [n |-> n, scheme |-> scheme, cred |-> cred]

\* the key under which the middleware stores the claims
MiddlewareContextKey == "user"

\* JWTAuthMiddleware: the response it gives itself, or next with the context
JWTAuthMiddleware(header, env, t) ==
    IF header.n = 0
    THEN [next |-> FALSE, status |-> StatusUnauthorized,
          msg |-> "Missing Authorization header", ctx |-> EmptyContext]
    ELSE IF header.n # 2 \/ ToLower(header.scheme) # "bearer"
    THEN [next |-> FALSE, status |-> StatusUnauthorized,
          msg |-> "Invalid Authorization header format", ctx |-> EmptyContext]
    ELSE LET p == ParseWithClaims(header.cred, MiddlewareSecret(env), t)
         IN  IF p.err # NoError
             THEN [next |-> FALSE, status |-> StatusUnauthorized,
                   msg |-> IF p.err = ErrSignatureInvalid
                           THEN "Invalid token signature" ELSE "Invalid token",
                   ctx |-> EmptyContext]
             ELSE IF ~p.valid
             THEN [next |-> FALSE, status |-> StatusUnauthorized,
                   msg |-> "Invalid token", ctx |-> EmptyContext]
             ELSE [next |-> TRUE, status |-> 0, msg |-> "",
                   ctx |-> [EmptyContext EXCEPT
                              ![MiddlewareContextKey] = ClaimsValue(p.claims)]]

\* getUserIDFromContext
getUserIDFromContext(ctx) ==
    IF ctx["user_claims"].type = "*JwtCustomClaims"
    THEN ctx["user_claims"].claims.user_id
    ELSE IF ctx["user_id"].type = "uint"
    THEN ctx["user_id"].n
    ELSE 0

\* ---------------------------------------------------------------- state
VARIABLES
    users,      \* the users table (the soft-deleted rows too)
    nextID,     \* next value of the users id sequence
    now,        \* time.Now(), in hours
    env,        \* os.Getenv("JWT_SECRET")
    issued,     \* session tokens handed out so far (what clients can send)
    nreq,       \* requests accepted so far
    pc,         \* per worker: the repository call it is about to make
    req,        \* per worker: the request it serves (kept after the answer)
    loc,        \* per worker: the handler's local variable user
    resp,       \* per worker: the answer to req, NoResp while in flight
    dbCalls,    \* per worker: repository calls made for req so far
    snap,       \* per worker: the users table when req arrived
    comments,   \* the comments table (the soft-deleted rows too)
    commentsCount,  \* per post: the counter comments_count of the document
    csnap,      \* per worker: comments and counters when req arrived
    prev,       \* per worker: the request answered last before req arrived
    last,       \* the request answered last, with its outcome
    follows,    \* the follows table
    likes,      \* the likes table (the soft-deleted rows too)
    likesCount, \* per post: the counter likes_count of the document
    tasks,      \* detached goroutines not yet run: per post and increment
    notifications,  \* the notifications table
    friendRequests, \* the friend_requests table
    storeUp,    \* the database answers (FALSE during an outage)
    links       \* history: the (subject id, user) pairs on file when a
                \* request arrived, over all requests so far

vars == <<users, nextID, now, env, issued, nreq, pc, req, loc, resp,
          dbCalls, snap, comments, commentsCount, csnap, prev, last, follows,
          likes, likesCount, tasks, notifications, friendRequests, storeUp, links>>

\* what the follow, like, notification and friendship handlers write
domain == <<follows, likes, likesCount, tasks, notifications, friendRequests>>

\* what the handlers behind the users write
social == <<comments, commentsCount, follows, likes, likesCount, tasks,
            notifications, friendRequests>>

\* ------------------------------------------------------------- requests
NoReq == [kind |-> "none"]
\* an identity token the provider's verifier rejects (expired, forged)
NoIdToken == [valid |-> FALSE, uid |-> "s1", email |-> "a@x.com", name |-> Absent]

\* what auth.Client.VerifyIDToken can be handed: a token the provider
\* signed (uid, optional email and name claims) or one it rejects
IdTokens ==
    {[valid |-> TRUE, uid |-> u, email |-> e, name |-> n] :
        u \in UIDs, e \in Emails, n \in ClaimNames}
    \cup {[valid |-> TRUE, uid |-> u, email |-> Absent, name |-> Absent] : u \in UIDs}
    \cup {NoIdToken}

\* session tokens a client may put in the header: the ones it was given,
\* and what it can make of them without the server's key
Resigned(t) == MakeToken(t.alg, t.claims, AttackerSecret)
Tampered(t) == [t EXCEPT !.claims.user_id = t.claims.user_id + 1]
Unsigned(t) == [t EXCEPT !.alg = "none"]
Credentials ==
    {Garbage} \cup issued \cup {Resigned(t) : t \in issued}
    \cup {Tampered(t) : t \in issued} \cup {Unsigned(t) : t \in issued}

Headers ==
    {NoHeader, Header(1, "Bearer", NoToken)}
    \cup {Header(2, "Bearer", c) : c \in Credentials}
    \cup {Header(2, s, c) : s \in {"bearer", "Basic"}, c \in issued}
    \cup {Header(3, "Bearer", c) : c \in issued}

Requests ==
    {[kind |-> "signup", ok |-> TRUE, email |-> e, password |-> "password1"] :
        e \in Emails}
    \cup {[kind |-> "signup", ok |-> FALSE, email |-> "", password |-> ""]}
    \cup {[kind |-> "signin", ok |-> TRUE, email |-> e, password |-> p] :
        e \in Emails, p \in Passwords}
    \cup {[kind |-> "signin", ok |-> FALSE, email |-> "", password |-> ""]}
    \cup {[kind |-> "register", ok |-> TRUE, email |-> e, uid |-> u] :
        e \in Emails, u \in UIDs}
    \cup {[kind |-> "register", ok |-> FALSE, email |-> "", uid |-> ""]}
    \cup {[kind |-> "firebase", ok |-> TRUE, idtok |-> t] : t \in IdTokens}
    \cup {[kind |-> "firebase", ok |-> FALSE, idtok |-> NoIdToken]}
    \cup {[kind |-> "profile", route |-> "GET", header |-> h] : h \in Headers}
    \cup {[kind |-> "profile", route |-> "DELETE", header |-> Header(2, "Bearer", c)] :
        c \in issued}
    \cup {[kind |-> "profile", route |-> "PUT", header |-> Header(2, "Bearer", c),
           ok |-> TRUE, email |-> e] : c \in issued, e \in Emails}
    \cup {[kind |-> "comment", route |-> rt, header |-> Header(2, "Bearer", c),
           id |-> i, ok |-> TRUE, content |-> NewContent] :
        rt \in {"PUT", "DELETE"}, c \in issued, i \in CommentIDs}

\* the first step of the handler the router gives the request to
FirstStep(kind) ==
    CASE kind = "signup" -> "su_start"
      [] kind = "signin" -> "si_start"
      [] kind = "register" -> "rg_start"
      [] kind = "firebase" -> "fl_start"
      [] kind = "profile" -> "pr_start"
      [] kind = "comment" -> "cm_start"
      [] kind = "follow" -> "fo_start"
      [] kind = "like" -> "lk_start"
      [] kind = "read" -> "rd_start"
      [] kind = "friend" -> "fr_start"
      [] kind = "remove" -> "rm_start"

\* ------------------------------------------------------------- responses
\* status, the body (its fields, message, token, user), the time it was sent,
\* and for a protected route: whether the middleware called the handler
\* (next), the claims it put into the context and the user id the handler
\* read from the context
NoResp == [status |-> 0, msg |-> "", echo |-> "", fields |-> {},
           token |-> NoToken, user |-> NoUserJSON, at |-> 0,
           next |-> FALSE, claims |-> NoClaims, userID |-> 0]

\* echo.NewHTTPError(status, msg): the body is {"message": msg}
HTTPError(status, msg) ==
    [NoResp EXCEPT !.status = status, !.msg = msg, !.fields = {"message"}]

\* c.JSON(status, echo.Map{"token": token})
TokenJSON(status, tok) ==
    [NoResp EXCEPT !.status = status, !.token = tok, !.fields = {"token"}]

NoLast == [req |-> NoReq, status |-> 0, uid |-> 0]

\* ----------------------------------------------------------------- Init
\* The tables survive restarts: a run starts on an empty database or on one
\* that earlier requests left (a Signup; a FirebaseLogin, then a Signup and
\* a comment of the first user, written through the earlier CreateComment
\* that read the caller from the Firebase middleware).
SeedStores ==
    { [rows |-> {}, next |-> 1, comments |-> {}],
      [rows |-> {NewRow(1, SignupName, "a@x.com", GenerateFromPassword("password1"), "")},
       next |-> 2, comments |-> {}],
      [rows |-> {NewRow(1, "", "a@x.com", NoHash, "s1"),
                 NewRow(2, SignupName, "b@x.com", GenerateFromPassword("password1"), "")},
       next |-> 3, comments |-> {NewComment(1, "p1", 1, "first")}] }

\* the store two first firebase-logins leave: two users with a subject id
UnitStores ==
    { [rows |-> {NewRow(1, "", "a@x.com", NoHash, "s1"),
                 NewRow(2, "", "b@x.com", NoHash, "s2")},
       next |-> 3, comments |-> {}] }

InitFrom(stores) ==
    /\ \E s \in stores :
          /\ users = s.rows /\ nextID = s.next
          /\ comments = s.comments
          /\ commentsCount =
               [q \in Posts |-> Cardinality({c \in s.comments : c.post_id = q})]
    /\ csnap = [w \in Workers |-> <<{}, [q \in Posts |-> 0]>>]
    /\ now = 0
    /\ env \in EnvSecrets
    /\ issued = {}
    /\ nreq = 0
    /\ pc = [w \in Workers |-> "idle"]
    /\ req = [w \in Workers |-> NoReq]
    /\ loc = [w \in Workers |-> NoUser]
    /\ resp = [w \in Workers |-> NoResp]
    /\ dbCalls = [w \in Workers |-> 0]
    /\ snap = [w \in Workers |-> {}]
    /\ prev = [w \in Workers |-> NoLast]
    /\ last = NoLast
    /\ links = {}
    /\ storeUp = TRUE
    /\ follows = {} /\ likes = {} /\ notifications = {} /\ friendRequests = {}
    /\ likesCount = [q \in Posts |-> 0]
    /\ tasks = [q \in Posts |-> [d \in {-1, 1} |-> 0]]

Init == InitFrom(SeedStores)

InitUnit == InitFrom(UnitStores)

\* the (subject id, user) pairs of the rows that carry a subject id
LinksOf(rows) ==
    {[uid |-> u.firebase_uid, id |-> u.id] : u \in {q \in Live(rows) : q.firebase_uid # ""}}

\* -------------------------------------------------------------- actions
\* the server accepts a request and hands it to worker w, up to max requests
AcceptUpTo(w, r, max) ==
    /\ pc[w] = "idle"
    /\ nreq < max
    /\ nreq' = nreq + 1
    /\ req' = [req EXCEPT ![w] = r]
    /\ pc' = [pc EXCEPT ![w] = FirstStep(r.kind)]
    /\ loc' = [loc EXCEPT ![w] = NoUser]
    /\ resp' = [resp EXCEPT ![w] = NoResp]
    /\ dbCalls' = [dbCalls EXCEPT ![w] = 0]
    /\ snap' = [snap EXCEPT ![w] = users]
    /\ csnap' = [csnap EXCEPT ![w] = social]
    /\ prev' = [prev EXCEPT ![w] = last]
    /\ links' = links \cup LinksOf(users)
    /\ UNCHANGED <<users, nextID, now, env, issued, last, social, storeUp>>

Accept(w, r) == AcceptUpTo(w, r, MaxReqs)

\* the free worker that takes the next request
FreeWorker == CHOOSE w \in Workers : pc[w] = "idle" /\ \A v \in Workers : pc[v] = "idle" => w <= v

Begin ==
    /\ \E w \in Workers : pc[w] = "idle"
    /\ \E r \in Requests : Accept(FreeWorker, r)

\* one request at a time: a request is accepted when no other is in flight
BeginSeq ==
    /\ \A v \in Workers : pc[v] = "idle"
    /\ \E r \in Requests : Accept(FreeWorker, r)

\* worker w answers its request with r after n more repository calls
Reply(w, r, n) ==
    /\ resp' = [resp EXCEPT ![w] = [r EXCEPT !.at = now]]
    /\ pc' = [pc EXCEPT ![w] = "idle"]
    /\ dbCalls' = [dbCalls EXCEPT ![w] = @ + n]
    /\ issued' = IF r.token = NoToken THEN issued ELSE issued \cup {r.token}
    /\ last' = [req |-> req[w], status |-> r.status, uid |-> r.token.claims.user_id]
    /\ UNCHANGED <<now, env, nreq, req, snap, csnap, prev, links, storeUp>>

\* the same, by a handler that does not touch the comments
Answer(w, r, n) == Reply(w, r, n) /\ UNCHANGED social

\* worker w goes on to step p after one repository call
Goto(w, p, u) ==
    /\ pc' = [pc EXCEPT ![w] = p]
    /\ loc' = [loc EXCEPT ![w] = u]
    /\ dbCalls' = [dbCalls EXCEPT ![w] = @ + 1]
    /\ UNCHANGED <<users, nextID, now, env, issued, nreq, req, resp, snap, prev, last,
                   social, csnap, links, storeUp>>

\* time passes: up to the expiry of a token issued now, or beyond it
Tick ==
    /\ \E d \in {TokenTTLHours, TokenTTLHours + 1} :
          /\ now + d <= MaxTime
          /\ now' = now + d
    /\ UNCHANGED <<users, nextID, env, issued, nreq, pc, req, loc, resp,
                   dbCalls, snap, prev, last, social, csnap, links, storeUp>>

\* ------------------------------------------------ POST /auth/signup
\* (mutant) Signup does not look the email up before creating the user
SignupStart_NoLookup(r, rows) ==
    IF ~r.ok THEN HTTPError(StatusBadRequest, "Invalid request payload") ELSE NoResp

\* Signup up to the lookup: Bind and validate, then GetUserByEmail; NoResp
\* when the handler goes on to create the user
SignupStart(r, rows) ==
    IF ~r.ok
    THEN HTTPError(StatusBadRequest, "Invalid request payload")
    ELSE IF GetUserByEmail(rows, r.email).err = "nil"
    THEN HTTPError(StatusConflict, "User with this email already registered")
    ELSE NoResp

\* the user Signup builds: FirebaseUID keeps its zero value
SignupUser(r, id) ==
    NewRow(id, SignupName, r.email, GenerateFromPassword(r.password), "")

\* Signup after CreateUser returned err for user u
SignupFinish(err, u, secret, t) ==
    IF err # "nil"
    THEN HTTPError(StatusInternalServerError, err)
    ELSE TokenJSON(StatusCreated, generateJWT(u, secret, t))

SU_Start(w) ==
    /\ pc[w] = "su_start"
    /\ LET a == SignupStart(req[w], users)
       IN  IF a # NoResp
           THEN Answer(w, a, IF req[w].ok THEN 1 ELSE 0)
                /\ UNCHANGED <<users, nextID, loc>>
           ELSE Goto(w, "su_create", NoUser)

SU_Create(w) ==
    /\ pc[w] = "su_create"
    /\ LET u == SignupUser(req[w], nextID)
           c == CreateUser(users, u)
       IN  /\ users' = c.rows
           /\ nextID' = nextID + 1
           /\ loc' = [loc EXCEPT ![w] = u]
           /\ Answer(w, SignupFinish(c.err, u, HandlerSecret(env), now), 1)

\* ------------------------------------------------ POST /auth/signin
SignIn(r, rows, secret, t) ==
    IF ~r.ok
    THEN HTTPError(StatusBadRequest, "Invalid request payload")
    ELSE LET g == GetUserByEmail(rows, r.email)
         IN  IF g.err # "nil"
             THEN [HTTPError(StatusUnauthorized, "User not found wiht email : ")
                      EXCEPT !.echo = r.email]
             ELSE IF CompareHashAndPassword(g.user.password, r.password) # "nil"
             THEN HTTPError(StatusUnauthorized, "Invalid password")
             ELSE TokenJSON(StatusOK, generateJWT(g.user, secret, t))

SI_Start(w) ==
    /\ pc[w] = "si_start"
    /\ Answer(w, SignIn(req[w], users, HandlerSecret(env), now),
              IF req[w].ok THEN 1 ELSE 0)
    /\ loc' = [loc EXCEPT ![w] = IF req[w].ok
                                 THEN GetUserByEmail(users, req[w].email).user
                                 ELSE NoUser]
    /\ UNCHANGED <<users, nextID>>

\* ------------------------------------------------ POST /auth/register
\* (mutant) Register does not look the subject id up before creating
RegisterStart_NoLookup(r, rows) ==
    IF ~r.ok THEN HTTPError(StatusBadRequest, "Invalid request payload") ELSE NoResp

RegisterStart(r, rows) ==
    IF ~r.ok
    THEN HTTPError(StatusBadRequest, "Invalid request payload")
    ELSE IF GetUserByFirebaseUID(rows, r.uid).err = "nil"
    THEN HTTPError(StatusConflict, "User with this Firebase UID already registered")
    ELSE NoResp

RegisterUser(r, id) == NewRow(id, RegisterName, r.email, NoHash, r.uid)

\* c.JSON(http.StatusCreated, user)
RegisterFinish(err, u) ==
    IF err # "nil"
    THEN HTTPError(StatusInternalServerError, err)
    ELSE [NoResp EXCEPT !.status = StatusCreated, !.user = UserJSON(u),
                        !.fields = {"id", "name", "email", "age", "firebase_uid"}]

RG_Start(w) ==
    /\ pc[w] = "rg_start"
    /\ LET a == RegisterStart(req[w], users)
       IN  IF a # NoResp
           THEN Answer(w, a, IF req[w].ok THEN 1 ELSE 0)
                /\ UNCHANGED <<users, nextID, loc>>
           ELSE Goto(w, "rg_create", NoUser)

RG_Create(w) ==
    /\ pc[w] = "rg_create"
    /\ LET u == RegisterUser(req[w], nextID)
           c == CreateUser(users, u)
       IN  /\ users' = c.rows
           /\ nextID' = nextID + 1
           /\ Answer(w, RegisterFinish(c.err, u), 1)
    /\ UNCHANGED loc

\* ------------------------------------------ POST /auth/firebase-login
\* (mutant) the error of VerifyIDToken is ignored
FirebaseStart_NoVerify(r) ==
    IF ~r.ok
    THEN HTTPError(StatusBadRequest, "Invalid request payload")
    ELSE IF r.idtok.email = Absent
    THEN HTTPError(StatusInternalServerError, "Internal Server Error")
    ELSE NoResp

\* FirebaseLogin up to the first lookup: Bind and validate, VerifyIDToken,
\* then the claims.  token.Claims["email"].(string) panics when the claim
\* is missing; the Recover middleware turns the panic into a 500.
FirebaseStart(r) ==
    IF ~r.ok
    THEN HTTPError(StatusBadRequest, "Invalid request payload")
    ELSE IF ~r.idtok.valid
    THEN HTTPError(StatusUnauthorized, "Invalid Firebase ID token")
    ELSE IF r.idtok.email = Absent
    THEN HTTPError(StatusInternalServerError, "Internal Server Error")
    ELSE NoResp

\* name := "" unless the name claim is a string
ClaimName(idtok) == IF idtok.name = Absent THEN "" ELSE idtok.name

\* (mutant) the new user is created without the subject id
FirebaseNewUser_NoSubject(idtok, id) ==
    NewRow(id, ClaimName(idtok), idtok.email, NoHash, "")

\* the user FirebaseLogin creates when neither lookup finds one
FirebaseNewUser(idtok, id) ==
    NewRow(id, ClaimName(idtok), idtok.email, NoHash, idtok.uid)

\* (mutant) linking also resets the password column
FirebaseLinked_ClearsPassword(u, idtok) ==
    [u EXCEPT !.firebase_uid = idtok.uid, !.password = NoHash]

\* the user found by email, with the subject id attached
FirebaseLinked(u, idtok) == [u EXCEPT !.firebase_uid = idtok.uid]

\* the user found by subject id, with email and (if given) name refreshed
FirebaseRefreshed(u, idtok) ==
    [u EXCEPT !.email = idtok.email,
              !.name = IF ClaimName(idtok) # "" THEN ClaimName(idtok) ELSE @]

\* FirebaseLogin after the write returned err: msg is the branch's message
\* (mutant) FirebaseLogin drops the error of the write and goes on
FirebaseFinish_IgnoresError(err, msg, u, secret, t) ==
    TokenJSON(StatusOK, generateJWT(u, secret, t))

FirebaseFinish(err, msg, u, secret, t) ==
    IF err # "nil"
    THEN HTTPError(StatusInternalServerError, msg)
    ELSE TokenJSON(StatusOK, generateJWT(u, secret, t))

\* FirebaseLogin when a lookup fails with anything but ErrRecordNotFound
FirebaseLookupFailed == HTTPError(StatusInternalServerError, "Database error")

FL_Start(w) ==
    /\ pc[w] = "fl_start"
    /\ LET a == FirebaseStart(req[w])
           g == LookupVia(storeUp, GetUserByFirebaseUID(users, req[w].idtok.uid))
       IN  IF a # NoResp
           THEN Answer(w, a, 0) /\ UNCHANGED <<users, nextID, loc>>
           ELSE IF g.err = ErrNotFound
           THEN Goto(w, "fl_email", NoUser)
           ELSE IF g.err # "nil"
           THEN Answer(w, FirebaseLookupFailed, 1) /\ UNCHANGED <<users, nextID, loc>>
           ELSE Goto(w, "fl_refresh", g.user)

FL_Email(w) ==
    /\ pc[w] = "fl_email"
    /\ LET g == LookupVia(storeUp, GetUserByEmail(users, req[w].idtok.email))
       IN  IF g.err = ErrNotFound
           THEN Goto(w, "fl_create", NoUser)
           ELSE IF g.err # "nil"
           THEN Answer(w, FirebaseLookupFailed, 1) /\ UNCHANGED <<users, nextID, loc>>
           ELSE Goto(w, "fl_link", g.user)

FL_Create(w) ==
    /\ pc[w] = "fl_create"
    /\ LET u == FirebaseNewUser(req[w].idtok, nextID)
           c == WriteVia(storeUp, users, CreateUser(users, u))
       IN  /\ users' = c.rows
           /\ nextID' = IF c.err = ErrStorage THEN nextID ELSE nextID + 1
           /\ loc' = [loc EXCEPT ![w] = u]
           /\ Answer(w, FirebaseFinish(c.err, "Failed to create user", u,
                                       HandlerSecret(env), now), 1)

FL_Link(w) ==
    /\ pc[w] = "fl_link"
    /\ LET u == FirebaseLinked(loc[w], req[w].idtok)
           c == WriteVia(storeUp, users, UpdateUser(users, u))
       IN  /\ users' = c.rows
           /\ loc' = [loc EXCEPT ![w] = u]
           /\ Answer(w, FirebaseFinish(c.err, "Failed to update user with Firebase UID",
                                       u, HandlerSecret(env), now), 1)
    /\ UNCHANGED nextID

FL_Refresh(w) ==
    /\ pc[w] = "fl_refresh"
    /\ LET u == FirebaseRefreshed(loc[w], req[w].idtok)
           c == WriteVia(storeUp, users, UpdateUser(users, u))
       IN  /\ users' = c.rows
           /\ loc' = [loc EXCEPT ![w] = u]
           /\ Answer(w, FirebaseFinish(c.err, "Failed to update user details",
                                       u, HandlerSecret(env), now), 1)
    /\ UNCHANGED nextID

\* ---------------------------------------- /api/v1/profile (protected)
\* UserHandler.GetProfile
GetProfile(ctx, rows) ==
    LET userID == getUserIDFromContext(ctx)
        g == GetUserByID(rows, userID)
    IN  IF userID = 0
        THEN [resp |-> HTTPError(StatusUnauthorized, "User not authenticated"),
              rows |-> rows, calls |-> 0, userID |-> userID]
        ELSE IF g.err # "nil"
        THEN [resp |-> HTTPError(StatusNotFound, "User profile not found"),
              rows |-> rows, calls |-> 1, userID |-> userID]
        ELSE [resp |-> [NoResp EXCEPT !.status = StatusOK, !.user = UserJSON(g.user),
                                      !.fields = {"success", "data"}],
              rows |-> rows, calls |-> 1, userID |-> userID]

\* UserHandler.UpdateProfile, for a body that sets the email
UpdateProfile(ctx, rows, r) ==
    LET userID == getUserIDFromContext(ctx)
        g == GetUserByID(rows, userID)
        u == [g.user EXCEPT !.email = IF r.email # "" THEN r.email ELSE @]
        c == UpdateUser(rows, u)
    IN  IF userID = 0
        THEN [resp |-> HTTPError(StatusUnauthorized, "User not authenticated"),
              rows |-> rows, calls |-> 0, userID |-> userID]
        ELSE IF ~r.ok
        THEN [resp |-> HTTPError(StatusBadRequest, "Invalid request payload"),
              rows |-> rows, calls |-> 0, userID |-> userID]
        ELSE IF g.err # "nil"
        THEN [resp |-> HTTPError(StatusNotFound, "User profile not found"),
              rows |-> rows, calls |-> 1, userID |-> userID]
        ELSE IF c.err # "nil"
        THEN [resp |-> HTTPError(StatusInternalServerError, c.err),
              rows |-> rows, calls |-> 2, userID |-> userID]
        ELSE [resp |-> [NoResp EXCEPT !.status = StatusOK, !.user = UserJSON(u),
                                      !.fields = {"success", "data"}],
              rows |-> c.rows, calls |-> 2, userID |-> userID]

\* UserHandler.DeleteUser
DeleteUser(ctx, rows) ==
    LET userID == getUserIDFromContext(ctx)
    IN  IF userID = 0
        THEN [resp |-> HTTPError(StatusUnauthorized, "User not authenticated"),
              rows |-> rows, calls |-> 0, userID |-> userID]
        ELSE [resp |-> [NoResp EXCEPT !.status = StatusNoContent],
              rows |-> DeleteUserRow(rows, userID), calls |-> 1, userID |-> userID]

\* (mutant) the middleware also wants the token's user on file, unchanged
Protected_ConsultsStore(r, rows, e, t) ==
    LET m == JWTAuthMiddleware(r.header, e, t)
        c == m.ctx[MiddlewareContextKey].claims
        h == GetProfile(m.ctx, rows)
    IN  IF ~m.next \/ ~\E u \in Live(rows) : u.id = c.user_id /\ u.email = c.email
        THEN [resp |-> HTTPError(StatusUnauthorized, "Invalid token"),
              rows |-> rows, calls |-> 0]
        ELSE [resp |-> [h.resp EXCEPT !.next = TRUE, !.userID = h.userID,
                                      !.claims = c],
              rows |-> h.rows, calls |-> h.calls]

\* the route's handler behind api.Use(JWTAuthMiddleware()): next is TRUE in
\* the answer when the middleware called the handler
Protected(r, rows, e, t) ==
    LET m == JWTAuthMiddleware(r.header, e, t)
        h == IF r.route = "GET" THEN GetProfile(m.ctx, rows)
             ELSE IF r.route = "PUT" THEN UpdateProfile(m.ctx, rows, r)
             ELSE DeleteUser(m.ctx, rows)
    IN  IF ~m.next
        THEN [resp |-> HTTPError(m.status, m.msg), rows |-> rows, calls |-> 0]
        ELSE [resp |-> [h.resp EXCEPT !.next = TRUE, !.userID = h.userID,
                                      !.claims = m.ctx[MiddlewareContextKey].claims],
              rows |-> h.rows, calls |-> h.calls]

PR_Start(w) ==
    /\ pc[w] = "pr_start"
    /\ LET a == Protected(req[w], users, env, now)
       IN  /\ users' = a.rows
           /\ Answer(w, a.resp, a.calls)
    /\ UNCHANGED <<nextID, loc>>

\* --------------------------------- /api/v1/comments/:id (protected)
\* CommentHandler.UpdateComment
UpdateComment(ctx, r, cms) ==
    LET currentUserID == getUserIDFromContext(ctx)
        g == GetCommentByID(cms, r.id)
        c == [g.comment EXCEPT !.content = r.content]
    IN  IF currentUserID = 0
        THEN [resp |-> HTTPError(StatusUnauthorized, "User not authenticated"),
              comments |-> cms, calls |-> 0, userID |-> currentUserID]
        ELSE IF ~r.ok
        THEN [resp |-> HTTPError(StatusBadRequest, "Invalid request payload"),
              comments |-> cms, calls |-> 0, userID |-> currentUserID]
        ELSE IF g.err # "nil"
        THEN [resp |-> HTTPError(StatusNotFound, "Comment not found"),
              comments |-> cms, calls |-> 1, userID |-> currentUserID]
        ELSE IF g.comment.user_id # currentUserID
        THEN [resp |-> HTTPError(StatusForbidden,
                                 "You are not authorized to update this comment"),
              comments |-> cms, calls |-> 1, userID |-> currentUserID]
        ELSE [resp |-> [NoResp EXCEPT !.status = StatusOK,
                                      !.fields = {"success", "data"}],
              comments |-> UpdateCommentRow(cms, c), calls |-> 2,
              userID |-> currentUserID]

\* CommentHandler.DeleteComment; the counter is decremented by a goroutine
\* the handler starts after the delete, and nothing else reads the counter
DeleteComment(ctx, r, cms, cnt) ==
    LET currentUserID == getUserIDFromContext(ctx)
        g == GetCommentByID(cms, r.id)
    IN  IF currentUserID = 0
        THEN [resp |-> HTTPError(StatusUnauthorized, "User not authenticated"),
              comments |-> cms, count |-> cnt, calls |-> 0, userID |-> currentUserID]
        ELSE IF g.err # "nil"
        THEN [resp |-> HTTPError(StatusNotFound, "Comment not found"),
              comments |-> cms, count |-> cnt, calls |-> 1, userID |-> currentUserID]
        ELSE IF g.comment.user_id # currentUserID
        THEN [resp |-> HTTPError(StatusForbidden,
                                 "You are not authorized to delete this comment"),
              comments |-> cms, count |-> cnt, calls |-> 1, userID |-> currentUserID]
        ELSE [resp |-> [NoResp EXCEPT !.status = StatusOK,
                                      !.fields = {"success", "data"}],
              comments |-> DeleteCommentRow(cms, r.id),
              count |-> DecrementCommentsCount(cnt, g.comment.post_id),
              calls |-> 2, userID |-> currentUserID]

\* the comment route's handler behind api.Use(JWTAuthMiddleware())
ProtectedComment(r, cms, cnt, e, t) ==
    LET m == JWTAuthMiddleware(r.header, e, t)
        h == IF r.route = "PUT"
             THEN UpdateComment(m.ctx, r, cms) @@ [count |-> cnt]
             ELSE DeleteComment(m.ctx, r, cms, cnt)
    IN  IF ~m.next
        THEN [resp |-> HTTPError(m.status, m.msg), comments |-> cms,
              count |-> cnt, calls |-> 0]
        ELSE [resp |-> [h.resp EXCEPT !.next = TRUE, !.userID = h.userID,
                                      !.claims = m.ctx[MiddlewareContextKey].claims],
              comments |-> h.comments, count |-> h.count, calls |-> h.calls]

CM_Start(w) ==
    /\ pc[w] = "cm_start"
    /\ LET a == ProtectedComment(req[w], comments, commentsCount, env, now)
       IN  /\ comments' = a.comments
           /\ commentsCount' = a.count
           /\ Reply(w, a.resp, a.calls)
    /\ UNCHANGED <<users, nextID, loc, domain>>

\* ------------------------------------- the handlers behind the middleware
\* The follow, like, notification, friendship and profile handlers, each
\* called with a context in which the caller is identified under a key the
\* handler reads: "user_id" for getUserIDFromContext, "firebaseUID" for the
\* friendship handler.
UintValue(n) == [type |-> "uint", claims |-> NoClaims, n |-> n]

CallerContext(id) ==
    IF id = 0 THEN EmptyContext ELSE [EmptyContext EXCEPT !["user_id"] = UintValue(id)]

\* c.JSON(status, ...) of a handler that returns no token
JSON(status) == [NoResp EXCEPT !.status = status]

\* worker w goes on to step p after n repository calls, keeping u
Proceed(w, p, u, n) ==
    /\ pc' = [pc EXCEPT ![w] = p]
    /\ loc' = [loc EXCEPT ![w] = u]
    /\ dbCalls' = [dbCalls EXCEPT ![w] = @ + n]
    /\ UNCHANGED <<nextID, now, env, issued, nreq, req, resp, snap, prev, last,
                   csnap, links, storeUp, comments, commentsCount>>

\* worker w answers with r after n more repository calls
Finish(w, r, n) ==
    /\ Reply(w, r, n)
    /\ UNCHANGED <<nextID, loc, comments, commentsCount>>

\* UpdateColumn("followers_count", followers_count + 1) and its siblings:
\* the decrements carry the condition "> 0"
IncrementFollowersCount(rows, id) ==
    {IF r.id = id /\ ~r.deleted
     THEN [r EXCEPT !.followers_count = @ + 1] ELSE r : r \in rows}

DecrementFollowersCount(rows, id) ==
    {IF r.id = id /\ ~r.deleted /\ r.followers_count > 0
     THEN [r EXCEPT !.followers_count = @ - 1] ELSE r : r \in rows}

IncrementFollowingCount(rows, id) ==
    {IF r.id = id /\ ~r.deleted
     THEN [r EXCEPT !.following_count = @ + 1] ELSE r : r \in rows}

DecrementFollowingCount(rows, id) ==
    {IF r.id = id /\ ~r.deleted /\ r.following_count > 0
     THEN [r EXCEPT !.following_count = @ - 1] ELSE r : r \in rows}

\* models.Follow: uniqueIndex idx_follower_following, no soft delete
NewFollow(follower, following) == [follower_id |-> follower, following_id |-> following]

IsFollowing(fws, follower, following) == NewFollow(follower, following) \in fws

\* models.Notification; the id is the next of the sequence
NewNotification(ns, type, actor, recipient) ==
    [id |-> Cardinality(ns) + 1, type |-> type, actor_id |-> actor,
     recipient_id |-> recipient, is_read |-> FALSE]

CreateNotification(ns, type, actor, recipient) ==
    ns \cup {NewNotification(ns, type, actor, recipient)}

\* Where("id = ?", notificationID).Update("is_read", true)
MarkAsReadRow(ns, id) ==
    {IF n.id = id THEN [n EXCEPT !.is_read = TRUE] ELSE n : n \in ns}

\* --------------------------------------- POST, DELETE /users/:id/follow
\* FollowUser up to IsFollowing; NoResp when the handler goes on
FollowStart(ctx, target, fws) ==
    LET currentUserID == getUserIDFromContext(ctx)
    IN  IF currentUserID = 0
        THEN HTTPError(StatusUnauthorized, "User not authenticated")
        ELSE IF currentUserID = target
        THEN HTTPError(StatusBadRequest, "Cannot follow yourself")
        ELSE IF IsFollowing(fws, currentUserID, target)
        THEN HTTPError(StatusConflict, "Already following this user")
        ELSE NoResp

\* UnfollowUser up to DeleteFollow: RowsAffected = 0 is an error
UnfollowStart(ctx, target, fws) ==
    LET currentUserID == getUserIDFromContext(ctx)
    IN  IF currentUserID = 0
        THEN HTTPError(StatusUnauthorized, "User not authenticated")
        ELSE IF ~IsFollowing(fws, currentUserID, target)
        THEN HTTPError(StatusInternalServerError, "follow relationship not found")
        ELSE NoResp

FO_Start(w) ==
    /\ pc[w] = "fo_start"
    /\ LET ctx == CallerContext(req[w].caller)
           a == IF req[w].route = "POST"
                THEN FollowStart(ctx, req[w].target, follows)
                ELSE UnfollowStart(ctx, req[w].target, follows)
           n == IF req[w].caller = 0 \/ (req[w].route = "POST"
                                          /\ req[w].caller = req[w].target)
                THEN 0 ELSE 1
       IN  IF a # NoResp
           THEN Finish(w, a, n) /\ UNCHANGED <<users, domain>>
           ELSE IF req[w].route = "POST"
           THEN Proceed(w, "fo_create", NoUser, 1) /\ UNCHANGED <<users, domain>>
           ELSE /\ follows' = follows \ {NewFollow(req[w].caller, req[w].target)}
                /\ Proceed(w, "fo_following", NoUser, 1)
                /\ UNCHANGED <<users, likes, likesCount, tasks, notifications,
                               friendRequests>>

\* CreateFollow: the insert fails on the unique index
FO_Create(w) ==
    /\ pc[w] = "fo_create"
    /\ IF IsFollowing(follows, req[w].caller, req[w].target)
       THEN Finish(w, HTTPError(StatusInternalServerError, ErrDuplicate), 1)
            /\ UNCHANGED <<users, domain>>
       ELSE /\ follows' = follows \cup {NewFollow(req[w].caller, req[w].target)}
            /\ Proceed(w, "fo_following", NoUser, 1)
            /\ UNCHANGED <<users, likes, likesCount, tasks, notifications,
                           friendRequests>>

\* IncrementFollowingCount(currentUserID), DecrementFollowingCount
FO_Following(w) ==
    /\ pc[w] = "fo_following"
    /\ users' = IF req[w].route = "POST"
                THEN IncrementFollowingCount(users, req[w].caller)
                ELSE DecrementFollowingCount(users, req[w].caller)
    /\ Proceed(w, "fo_followers", NoUser, 1)
    /\ UNCHANGED domain

\* IncrementFollowersCount(targetID), DecrementFollowersCount, and the
\* notification FollowUser leaves for the target
FO_Followers(w) ==
    /\ pc[w] = "fo_followers"
    /\ users' = IF req[w].route = "POST"
                THEN IncrementFollowersCount(users, req[w].target)
                ELSE DecrementFollowersCount(users, req[w].target)
    /\ notifications' =
          IF req[w].route = "POST" /\ GetUserByID(users, req[w].caller).err = "nil"
          THEN CreateNotification(notifications, "follow", req[w].caller, req[w].target)
          ELSE notifications
    /\ Finish(w, JSON(StatusOK), IF req[w].route = "POST" THEN 3 ELSE 1)
    /\ UNCHANGED <<follows, likes, likesCount, tasks, friendRequests>>

\* ------------------------------------------ POST, DELETE /posts/:id/like
\* the author of a post document: a Firebase subject id
PostOwner(post) == "s1"

\* models.Like with gorm.Model: plain indexes on post_id and on user_id
NewLike(lks, post, user) ==
    [id |-> Cardinality(lks) + 1, post_id |-> post, user_id |-> user, deleted |-> FALSE]

\* Count(&count) of the rows of the pair; count > 0
HasUserLikedPost(lks, post, user) ==
    \E l \in lks : l.post_id = post /\ l.user_id = user /\ ~l.deleted

\* db.Create(like)
CreateLike(lks, post, user) == lks \cup {NewLike(lks, post, user)}

\* Where(post_id, user_id).Delete(&models.Like{}): a soft delete of every
\* row of the pair
DeleteLike(lks, post, user) ==
    {IF l.post_id = post /\ l.user_id = user /\ ~l.deleted
     THEN [l EXCEPT !.deleted = TRUE] ELSE l : l \in lks}

\* go IncrementLikesCount(ctx, post), go DecrementLikesCount(ctx, post)
Spawn(ts, post, d) == [ts EXCEPT ![post][d] = @ + 1]

\* LikePost up to HasUserLikedPost; NoResp when the handler goes on
LikeStart(ctx, post, lks) ==
    LET currentUserID == getUserIDFromContext(ctx)
    IN  IF currentUserID = 0
        THEN HTTPError(StatusUnauthorized, "User not authenticated")
        ELSE IF post \notin Posts
        THEN HTTPError(StatusNotFound, "Post not found")
        ELSE IF HasUserLikedPost(lks, post, currentUserID)
        THEN HTTPError(StatusConflict, "Post already liked by this user")
        ELSE NoResp

\* UnlikePost up to DeleteLike: RowsAffected = 0 is "like not found"
UnlikeStart(ctx, post, lks) ==
    LET currentUserID == getUserIDFromContext(ctx)
    IN  IF currentUserID = 0
        THEN HTTPError(StatusUnauthorized, "User not authenticated")
        ELSE IF post \notin Posts
        THEN HTTPError(StatusNotFound, "Post not found")
        ELSE IF ~HasUserLikedPost(lks, post, currentUserID)
        THEN HTTPError(StatusNotFound, "Like not found")
        ELSE NoResp

LK_Start(w) ==
    /\ pc[w] = "lk_start"
    /\ LET ctx == CallerContext(req[w].caller)
           a == IF req[w].route = "POST"
                THEN LikeStart(ctx, req[w].post, likes)
                ELSE UnlikeStart(ctx, req[w].post, likes)
           n == IF req[w].caller = 0 THEN 0
                ELSE IF req[w].post \notin Posts THEN 1 ELSE 2
       IN  IF a # NoResp
           THEN Finish(w, a, n) /\ UNCHANGED <<users, domain>>
           ELSE IF req[w].route = "POST"
           THEN Proceed(w, "lk_create", NoUser, 2) /\ UNCHANGED <<users, domain>>
           ELSE /\ likes' = DeleteLike(likes, req[w].post, req[w].caller)
                /\ tasks' = Spawn(tasks, req[w].post, -1)
                /\ Finish(w, JSON(StatusOK), 2)
                /\ UNCHANGED <<users, follows, likesCount, notifications,
                               friendRequests>>

\* CreateLike, then the goroutine that increments the counter
LK_Create(w) ==
    /\ pc[w] = "lk_create"
    /\ likes' = CreateLike(likes, req[w].post, req[w].caller)
    /\ tasks' = Spawn(tasks, req[w].post, 1)
    /\ Proceed(w, "lk_notify", NoUser, 1)
    /\ UNCHANGED <<users, follows, likesCount, notifications, friendRequests>>

\* the notification for the post's author, unless the author liked it
LK_Notify(w) ==
    /\ pc[w] = "lk_notify"
    /\ LET actor == GetUserByID(users, req[w].caller)
           recipient == GetUserByFirebaseUID(users, PostOwner(req[w].post))
       IN  /\ notifications' =
                 IF /\ actor.err = "nil" /\ recipient.err = "nil"
                    /\ recipient.user.id # req[w].caller
                 THEN CreateNotification(notifications, "like", req[w].caller,
                                         recipient.user.id)
                 ELSE notifications
           /\ Finish(w, JSON(StatusOK), IF actor.err = "nil" THEN 3 ELSE 1)
    /\ UNCHANGED <<users, follows, likes, likesCount, tasks, friendRequests>>

\* a detached goroutine runs: $inc likes_count by 1 or by -1
RunTask ==
    /\ \E q \in Posts, d \in {-1, 1} :
          /\ tasks[q][d] > 0
          /\ tasks' = [tasks EXCEPT ![q][d] = @ - 1]
          /\ likesCount' = [likesCount EXCEPT ![q] = @ + d]
    /\ UNCHANGED <<users, nextID, now, env, issued, nreq, pc, req, loc, resp,
                   dbCalls, snap, prev, last, csnap, links, storeUp, comments,
                   commentsCount, follows, likes, notifications, friendRequests>>

\* a detached goroutine finds the request's context cancelled (the handler
\* has returned): UpdateOne fails and the error is dropped
DropTask ==
    /\ \E q \in Posts, d \in {-1, 1} :
          /\ tasks[q][d] > 0
          /\ tasks' = [tasks EXCEPT ![q][d] = @ - 1]
    /\ UNCHANGED <<users, nextID, now, env, issued, nreq, pc, req, loc, resp,
                   dbCalls, snap, prev, last, csnap, links, storeUp, comments,
                   commentsCount, follows, likes, likesCount, notifications,
                   friendRequests>>

\* -------------------------------------------- PUT /notifications/:id/read
\* NotificationHandler.MarkAsRead
MarkAsRead(ctx, id, ns) ==
    LET currentUserID == getUserIDFromContext(ctx)
    IN  IF currentUserID = 0
        THEN [resp |-> HTTPError(StatusUnauthorized, "User not authenticated"),
              rows |-> ns, calls |-> 0]
        ELSE [resp |-> JSON(StatusOK), rows |-> MarkAsReadRow(ns, id), calls |-> 1]

RD_Start(w) ==
    /\ pc[w] = "rd_start"
    /\ LET a == MarkAsRead(CallerContext(req[w].caller), req[w].id, notifications)
       IN  /\ notifications' = a.rows
           /\ Finish(w, a.resp, a.calls)
    /\ UNCHANGED <<users, follows, likes, likesCount, tasks, friendRequests>>

\* ------------------------------------------------- POST /friend-requests
\* models.FriendRequest with gorm.Model: plain indexes on sender_id and on
\* receiver_id
NewFriendRequest(frs, sender, receiver) ==
    [id |-> Cardinality(frs) + 1, sender_id |-> sender, receiver_id |-> receiver,
     status |-> "pending"]

\* First(&existingRequest) over both directions: the row with the least id
ExistingRequest(frs, sender, receiver) ==
    LET m == {f \in frs : \/ f.sender_id = sender /\ f.receiver_id = receiver
                          \/ f.sender_id = receiver /\ f.receiver_id = sender}
    IN  IF m = {} THEN [err |-> ErrNotFound, status |-> ""]
        ELSE [err |-> "nil",
              status |-> (CHOOSE f \in m : \A g \in m : f.id <= g.id).status]

\* FriendshipHandler.SendFriendRequest up to the repository call; NoResp
\* when it goes on
SendFriendRequestStart(firebaseUID, receiver, rows) ==
    LET senderUser == GetUserByFirebaseUID(rows, firebaseUID)
    IN  IF senderUser.err # "nil"
        THEN HTTPError(StatusInternalServerError,
                       "Authenticated user not found in database")
        ELSE IF GetUserByID(rows, receiver).err # "nil"
        THEN HTTPError(StatusNotFound, "Receiver user not found")
        ELSE IF senderUser.user.id = receiver
        THEN HTTPError(StatusBadRequest, "Cannot send a friend request to yourself")
        ELSE NoResp

\* PostgresFriendshipRepository.SendFriendRequest up to Create; NoResp when
\* it goes on
SendFriendRequestCheck(e) ==
    IF e.err = "nil" /\ e.status = "pending"
    THEN HTTPError(StatusInternalServerError,
                   "a pending friend request already exists between these users")
    ELSE IF e.err = "nil" /\ e.status = "accepted"
    THEN HTTPError(StatusInternalServerError, "users are already friends")
    ELSE NoResp

FR_Start(w) ==
    /\ pc[w] = "fr_start"
    /\ LET a == SendFriendRequestStart(req[w].fuid, req[w].receiver, users)
           senderUser == GetUserByFirebaseUID(users, req[w].fuid)
       IN  IF a # NoResp
           THEN Finish(w, a, IF senderUser.err # "nil" THEN 1 ELSE 2)
           ELSE Proceed(w, "fr_find", senderUser.user, 2)
    /\ UNCHANGED <<users, domain>>

FR_Find(w) ==
    /\ pc[w] = "fr_find"
    /\ LET a == SendFriendRequestCheck(
                    ExistingRequest(friendRequests, loc[w].id, req[w].receiver))
       IN  IF a # NoResp
           THEN Finish(w, a, 1)
           ELSE Proceed(w, "fr_create", loc[w], 1)
    /\ UNCHANGED <<users, domain>>

FR_Create(w) ==
    /\ pc[w] = "fr_create"
    /\ friendRequests' = friendRequests
          \cup {NewFriendRequest(friendRequests, loc[w].id, req[w].receiver)}
    /\ Finish(w, JSON(StatusCreated), 1)
    /\ UNCHANGED <<users, follows, likes, likesCount, tasks, notifications>>

\* ----------------------------------------------------- DELETE /profile
RM_Start(w) ==
    /\ pc[w] = "rm_start"
    /\ LET a == DeleteUser(CallerContext(req[w].caller), users)
       IN  /\ users' = a.rows
           /\ Finish(w, a.resp, a.calls)
    /\ UNCHANGED domain

\* ------------------------------------------------------- specifications
\* the steps of FirebaseLogin
FirebaseStep(w) ==
    FL_Start(w) \/ FL_Email(w) \/ FL_Create(w) \/ FL_Link(w) \/ FL_Refresh(w)

\* the steps of the handlers that can write to the users table
WriterStep(w) ==
    \/ SU_Start(w) \/ SU_Create(w)
    \/ RG_Start(w) \/ RG_Create(w)
    \/ FirebaseStep(w)
    \/ PR_Start(w)

Step == \E w \in Workers : WriterStep(w) \/ SI_Start(w) \/ CM_Start(w)

\* requests are served concurrently
Next == Begin \/ Step \/ Tick

Spec == Init /\ [][Next]_vars

\* requests are served one after the other
NextSeq == BeginSeq \/ Step \/ Tick

SpecSeq == Init /\ [][NextSeq]_vars

\* requests that reach a write to the users table: valid signups and
\* registers, firebase-logins with a verified token (the name claim plays
\* no part in a race and is left out), profile updates
Writes(r) ==
    \/ r.kind \in {"signup", "register"} /\ r.ok
    \/ r.kind = "firebase" /\ r.ok /\ r.idtok.valid /\ r.idtok.name = Absent
    \/ r.kind = "profile" /\ r.route = "PUT"

BeginRace ==
    /\ \E w \in Workers : pc[w] = "idle"
    /\ \E r \in {q \in Requests : Writes(q)} : Accept(FreeWorker, r)

\* the writing requests alone, served concurrently
NextRace == BeginRace \/ (\E w \in Workers : WriterStep(w))

SpecRace == Init /\ [][NextRace]_vars

\* a token is issued, the users table changes, the token comes back:
\* firebase-logins with a verified token that names an email, and profile
\* requests that carry an issued token or a re-signed one
StoreRequests ==
    {r \in Requests :
        \/ r.kind = "firebase" /\ r.ok /\ r.idtok.valid /\ r.idtok.email # Absent
        \/ /\ r.kind = "profile" /\ r.route \in {"GET", "DELETE"}
           /\ r.header.n = 2 /\ r.header.scheme = "Bearer"
           /\ r.header.cred \in issued \cup {Resigned(c) : c \in issued}}

BeginStore ==
    /\ \A v \in Workers : pc[v] = "idle"
    /\ \E r \in StoreRequests : AcceptUpTo(FreeWorker, r, MaxStoreReqs)

NextStore == BeginStore \/ (\E w \in Workers : FirebaseStep(w) \/ PR_Start(w)) \/ Tick

SpecStore == Init /\ [][NextStore]_vars

\* firebase-login while the database goes down and comes back: requests
\* one at a time, and the connection to the database is lost or restored
\* between any two steps
BeginFault ==
    /\ \A v \in Workers : pc[v] = "idle"
    /\ \E r \in {q \in Requests : q.kind = "firebase"} : Accept(FreeWorker, r)

Outage ==
    /\ storeUp' = ~storeUp
    /\ UNCHANGED <<users, nextID, now, env, issued, nreq, pc, req, loc, resp,
                   dbCalls, snap, prev, last, social, csnap, links>>

NextFault == BeginFault \/ (\E w \in Workers : FirebaseStep(w)) \/ Outage

SpecFault == Init /\ [][NextFault]_vars

\* the handlers behind the middleware, called concurrently with each other
\* and with signup and firebase-login
Callers == {0, 1, 2}

UnitRequests ==
    {[kind |-> "follow", route |-> m, caller |-> c, target |-> t] :
        m \in {"POST", "DELETE"}, c \in Callers, t \in Callers \ {0}}
    \cup {[kind |-> "like", route |-> m, caller |-> c, post |-> q] :
        m \in {"POST", "DELETE"}, c \in Callers, q \in Posts}
    \cup {[kind |-> "read", caller |-> c, id |-> i] :
        c \in Callers, i \in Callers \ {0}}
    \cup {[kind |-> "friend", fuid |-> f, receiver |-> t] :
        f \in UIDs, t \in Callers \ {0}}
    \cup {[kind |-> "remove", caller |-> c] : c \in Callers}
    \cup {r \in Requests : r.kind \in {"signup", "firebase"} /\ Writes(r)}

BeginUnit ==
    /\ \E w \in Workers : pc[w] = "idle"
    /\ \E r \in UnitRequests : Accept(FreeWorker, r)

UnitStep(w) ==
    \/ SU_Start(w) \/ SU_Create(w) \/ FirebaseStep(w)
    \/ FO_Start(w) \/ FO_Create(w) \/ FO_Following(w) \/ FO_Followers(w)
    \/ LK_Start(w) \/ LK_Create(w) \/ LK_Notify(w)
    \/ RD_Start(w)
    \/ FR_Start(w) \/ FR_Find(w) \/ FR_Create(w)
    \/ RM_Start(w)

NextUnit == BeginUnit \/ (\E w \in Workers : UnitStep(w)) \/ RunTask \/ DropTask

SpecUnit == InitUnit /\ [][NextUnit]_vars

TypeOK ==
    /\ nreq \in 0..MaxReqs
    /\ now \in 0..MaxTime
    /\ \A w \in Workers : dbCalls[w] \in Nat

\* ================================================================ claims
\* worker w has answered a request of this kind
Done(w, kind) == pc[w] = "idle" /\ req[w].kind = kind

\* a session token the server itself signed, still unexpired at time t
Genuine(tok, t) == tok \in issued /\ t < tok.claims.exp

\* the header has the two-part shape "Bearer <token>"
BearerShape(h) == h.n = 2 /\ h.scheme \in {"Bearer", "bearer", "BEARER"}

\* C1: on a protected route the handler behind the middleware is called only
\* for a header that is present, has the shape "Bearer <token>" and carries
\* a token the server signed that has not expired; every other request is
\* answered 401 by the middleware and never reaches the handler.
C1_HandlerOnlyBehindValidBearer ==
    \A w \in Workers : Done(w, "profile") =>
        LET h == req[w].header
            good == BearerShape(h) /\ Genuine(h.cred, resp[w].at)
        IN  /\ resp[w].next => good
            /\ ~good => resp[w].status = StatusUnauthorized /\ ~resp[w].next

\* a well-formed token signed with another key was sent and turned away
C1_Witness ==
    \E w \in Workers :
        /\ Done(w, "profile")
        /\ req[w].header.n = 2 /\ req[w].header.scheme = "Bearer"
        /\ req[w].header.cred.wf /\ req[w].header.cred.sig.key = AttackerSecret
        /\ resp[w].status = StatusUnauthorized /\ ~resp[w].next

\* C2: for a protected request with a valid, unexpired token issued to user
\* u, the handler reads u's id from the context (never 0) and does not
\* answer "User not authenticated".
C2_HandlerReadsInjectedIdentity ==
    \A w \in Workers :
        (Done(w, "profile") /\ BearerShape(req[w].header)
            /\ Genuine(req[w].header.cred, resp[w].at)) =>
        /\ resp[w].next
        /\ resp[w].userID = req[w].header.cred.claims.user_id
        /\ resp[w].userID # 0
        /\ resp[w].msg # "User not authenticated"

\* C3: a token made by generateJWT for a user with a resolved id and email,
\* verified by the middleware at the moment it was issued, is accepted and
\* yields the user_id and email that were put into it.
C3_IssueVerifyRoundTrip ==
    \A w \in Workers :
        (pc[w] = "idle" /\ resp[w].token # NoToken) =>
        LET m == JWTAuthMiddleware(Header(2, "Bearer", resp[w].token), env, resp[w].at)
        IN  /\ loc[w].id # 0
            /\ m.next
            /\ m.ctx[MiddlewareContextKey].claims.user_id = loc[w].id
            /\ m.ctx[MiddlewareContextKey].claims.email = loc[w].email

\* a token was issued with the secret taken from the environment
C3_Witness ==
    \E w \in Workers :
        /\ pc[w] = "idle" /\ resp[w].token # NoToken
        /\ env # ""
        /\ resp[w].token.claims.user_id = loc[w].id

\* some live user of the table rows has this email / this subject id
EmailHeld(rows, email) == \E u \in Live(rows) : u.email = email
SubjectHeld(rows, fuid) == \E u \in Live(rows) : u.firebase_uid = fuid

\* C4: a signup with an email that an existing user holds is answered 409,
\* creates no row, changes no row and issues no token.
C4_SignupDuplicateEmailConflict ==
    \A w \in Workers :
        (Done(w, "signup") /\ req[w].ok /\ EmailHeld(snap[w], req[w].email)) =>
        /\ resp[w].status = StatusConflict
        /\ users = snap[w]
        /\ resp[w].token = NoToken
        /\ resp[w].token \notin issued

\* a signup for a held email was answered
C4_Witness ==
    \E w \in Workers :
        /\ Done(w, "signup") /\ req[w].ok
        /\ EmailHeld(snap[w], req[w].email)
        /\ resp[w].status = StatusConflict

\* C5: a valid signup whose email nobody holds is answered 201 with a
\* non-empty token and a user object that has the submitted email and no
\* password; afterwards the table holds exactly one new user, with that
\* email and a password hash.
C5_SignupCreatesAndReturnsUser ==
    \A w \in Workers :
        (Done(w, "signup") /\ req[w].ok /\ ~EmailHeld(snap[w], req[w].email)) =>
        /\ resp[w].status = StatusCreated
        /\ "token" \in resp[w].fields /\ resp[w].token # NoToken
        /\ "user" \in resp[w].fields /\ resp[w].user.email = req[w].email
        /\ "password" \notin DOMAIN resp[w].user
        /\ \E u \in users :
              /\ users = snap[w] \cup {u} /\ u \notin snap[w]
              /\ u.email = req[w].email /\ u.password.alg = "bcrypt"

\* C6: for one password, the answer to a signin whose email no user has is
\* the answer to a signin with a registered email and a wrong password:
\* both 401, with the same body apart from what the client sent.
C6_SigninHidesEmailExistence ==
    \A w, v \in Workers :
        (/\ Done(w, "signin") /\ req[w].ok /\ ~EmailHeld(snap[w] \cup users, req[w].email)
         /\ Done(v, "signin") /\ req[v].ok
         /\ \E u \in Live(snap[v]) :
               /\ u.email = req[v].email
               /\ CompareHashAndPassword(u.password, req[v].password) # "nil"
         /\ req[w].password = req[v].password) =>
        /\ resp[w].status = StatusUnauthorized
        /\ resp[v].status = StatusUnauthorized
        /\ resp[w].msg = resp[v].msg
        /\ resp[w].fields = resp[v].fields

\* C7: a firebase-login whose identity token the verifier rejects is
\* answered 401, makes no repository call and issues no session token.
C7_RejectedIdTokenTouchesNothing ==
    \A w \in Workers :
        (Done(w, "firebase") /\ req[w].ok /\ ~req[w].idtok.valid) =>
        /\ resp[w].status = StatusUnauthorized
        /\ dbCalls[w] = 0
        /\ users = snap[w]
        /\ resp[w].token = NoToken

\* a rejected identity token was answered while its subject id is on file
C7_Witness ==
    \E w \in Workers :
        /\ Done(w, "firebase") /\ req[w].ok /\ ~req[w].idtok.valid
        /\ SubjectHeld(users, req[w].idtok.uid)
        /\ resp[w].status = StatusUnauthorized

\* C8: for a verified claim whose subject id is linked to user A and whose
\* email is the email of another user B, firebase-login resolves to A (the
\* issued token carries A's id), creates no user and leaves B as it was.
C8_SubjectIdWinsOverEmail ==
    \A w \in Workers :
        (Done(w, "firebase") /\ req[w].ok /\ req[w].idtok.valid) =>
        \A A, B \in Live(snap[w]) :
            (A.firebase_uid = req[w].idtok.uid /\ B.email = req[w].idtok.email
                /\ A.id # B.id) =>
            /\ resp[w].token # NoToken
            /\ resp[w].token.claims.user_id = A.id
            /\ Cardinality(users) = Cardinality(snap[w])
            /\ B \in users

C10_ConcurrentFirstLoginOneRow ==
    \A w, v \in Workers :
        (/\ w # v
         /\ Done(w, "firebase") /\ req[w].ok /\ req[w].idtok.valid
         /\ Done(v, "firebase") /\ req[v].ok /\ req[v].idtok.valid
         /\ req[w].idtok.uid = req[v].idtok.uid
         /\ ~\E u \in snap[w] \cup snap[v] : u.firebase_uid = req[w].idtok.uid) =>
        Cardinality({u \in users : u.firebase_uid = req[w].idtok.uid}) = 1

\* C13: a register whose subject id an existing user has is answered 409
\* and leaves the users table as it was; a register adds a row only when
\* no user had its subject id, and then exactly one row, with that id.
C13_RegisterDuplicateSubjectConflict ==
    \A w \in Workers :
        (Done(w, "register") /\ req[w].ok) =>
        /\ SubjectHeld(snap[w], req[w].uid) =>
              resp[w].status = StatusConflict /\ users = snap[w]
        /\ users # snap[w] =>
              /\ ~SubjectHeld(snap[w], req[w].uid)
              /\ \E u \in users : /\ users = snap[w] \cup {u}
                                  /\ u.firebase_uid = req[w].uid

\* a register for a subject id on file was answered 409
C13_Witness ==
    \E w \in Workers :
        /\ Done(w, "register") /\ req[w].ok
        /\ SubjectHeld(snap[w], req[w].uid)
        /\ resp[w].status = StatusConflict
        /\ snap[w] # {} /\ users = snap[w]

\* C14: whatever the interleaving of signups, registers, firebase-logins and
\* profile updates, no two rows of the users table have the same email and
\* no two have the same subject id.
C14_UniqueEmailAndSubject ==
    \A a, b \in users :
        a # b => /\ a.id # b.id
                 /\ a.email # b.email
                 /\ a.firebase_uid # b.firebase_uid

\* two signups for one free email raced past the lookup: one created the
\* row, the insert of the other was refused by the index
C14_Witness ==
    \E w, v \in Workers :
        /\ w # v /\ Done(w, "signup") /\ Done(v, "signup")
        /\ req[w].ok /\ req[v].ok /\ req[w].email = req[v].email
        /\ ~EmailHeld(snap[w], req[w].email) /\ ~EmailHeld(snap[v], req[v].email)
        /\ resp[w].status = StatusCreated
        /\ resp[v].status = StatusInternalServerError /\ resp[v].msg = ErrDuplicate

\* C15: every row of the users table has a password hash or a subject id
\* (or both), after any sequence of signups, registers, firebase-logins and
\* profile updates.
C15_AtLeastOneAuthMethod ==
    \A u \in users : u.password # NoHash \/ u.firebase_uid # ""

\* a firebase-login created a user that has a subject id and no password
C15_Witness ==
    \E w \in Workers :
        /\ Done(w, "firebase") /\ resp[w].status = StatusOK
        /\ loc[w] \in users /\ loc[w] \notin snap[w]
        /\ loc[w].password = NoHash /\ loc[w].firebase_uid # ""
        /\ \A q \in snap[w] : q.id # loc[w].id

\* C16: a caller with a valid token who is not the author of a comment gets
\* 403 from UpdateComment and from DeleteComment, and the comment row and
\* the post's comments counter stay as they were.
C16_NonAuthorForbidden ==
    \A w \in Workers :
        (/\ Done(w, "comment") /\ BearerShape(req[w].header)
         /\ Genuine(req[w].header.cred, resp[w].at)
         /\ \E c \in csnap[w][1] :
               /\ c.id = req[w].id /\ ~c.deleted
               /\ c.user_id # req[w].header.cred.claims.user_id) =>
        /\ resp[w].status = StatusForbidden
        /\ comments = csnap[w][1]
        /\ commentsCount = csnap[w][2]

\* C17: what the middleware decides about a token, and the claims it passes
\* on, depend on the header and the clock alone, whatever the users table
\* holds: a token the server issued is accepted with the claims it was
\* issued with until it expires, also after its user's row has changed or
\* a delete was asked for, and no other token is accepted.
C17_VerifyIgnoresStore ==
    \A w \in Workers : Done(w, "profile") =>
        LET h == req[w].header
            good == BearerShape(h) /\ Genuine(h.cred, resp[w].at)
        IN  /\ resp[w].next <=> good
            /\ resp[w].next => resp[w].claims = h.cred.claims

\* a token came back and was accepted with its claims after the row of its
\* user had been given another email
C17_Witness ==
    \E w \in Workers :
        /\ Done(w, "profile") /\ resp[w].next
        /\ resp[w].claims = req[w].header.cred.claims
        /\ \E u \in Live(users) :
              /\ u.id = resp[w].claims.user_id
              /\ u.email # resp[w].claims.email

\* worker w has answered a firebase-login whose token was verified and
\* names an email
DoneLogin(w) ==
    /\ Done(w, "firebase") /\ req[w].ok
    /\ req[w].idtok.valid /\ req[w].idtok.email # Absent

\* a signin with this email and password, as a client would send it
SigninReq(email, pw) == [kind |-> "signin", ok |-> TRUE, email |-> email, password |-> pw]

\* C18: when no user has the claim's subject id and a user U has the claim's
\* email, firebase-login writes the subject id into U's row and nothing
\* else, adds no row, issues the token for U, and every password that
\* signed in to U before still signs in to U.
C18_LinkByEmailKeepsPassword ==
    \A w \in Workers :
        (DoneLogin(w) /\ ~SubjectHeld(snap[w], req[w].idtok.uid)) =>
        \A U \in Live(snap[w]) : U.email = req[w].idtok.email =>
            /\ users = (snap[w] \ {U})
                          \cup {[U EXCEPT !.firebase_uid = req[w].idtok.uid]}
            /\ resp[w].status = StatusOK
            /\ resp[w].token.claims.user_id = U.id
            /\ \A pw \in Passwords :
                  SignIn(SigninReq(U.email, pw), snap[w], HandlerSecret(env), now).status
                        = StatusOK
                  => LET a == SignIn(SigninReq(U.email, pw), users, HandlerSecret(env), now)
                     IN  a.status = StatusOK /\ a.token.claims.user_id = U.id

\* a user with a password was linked to a subject id
C18_Witness ==
    \E w \in Workers :
        /\ DoneLogin(w) /\ ~SubjectHeld(snap[w], req[w].idtok.uid)
        /\ resp[w].status = StatusOK
        /\ \E U \in Live(snap[w]) :
              /\ U.email = req[w].idtok.email /\ U.password.alg = "bcrypt"
              /\ U.firebase_uid = ""
              /\ [U EXCEPT !.firebase_uid = req[w].idtok.uid] \in users

\* C19: when neither the claim's subject id nor its email is on file,
\* firebase-login adds exactly one row: subject id and email of the claim,
\* no password, and as name the claim's name, or the subject id when the
\* claim has no name.
C19_NoMatchCreatesUser ==
    \A w \in Workers :
        (/\ DoneLogin(w) /\ ~SubjectHeld(snap[w], req[w].idtok.uid)
         /\ ~EmailHeld(snap[w], req[w].idtok.email)) =>
        \E u \in users :
            /\ users = snap[w] \cup {u} /\ u \notin snap[w]
            /\ u.firebase_uid = req[w].idtok.uid
            /\ u.email = req[w].idtok.email
            /\ u.password = NoHash
            /\ u.name = IF req[w].idtok.name = Absent
                        THEN req[w].idtok.uid ELSE req[w].idtok.name

\* C20: when a user U has the claim's subject id, firebase-login sets U's
\* email to the claim's, sets U's name to the claim's only when the claim
\* has one, writes U back, adds no row and leaves U's subject id and
\* password as they were.
C20_ExistingLinkRefreshed ==
    \A w \in Workers : DoneLogin(w) =>
        \A U \in Live(snap[w]) : U.firebase_uid = req[w].idtok.uid =>
            users = (snap[w] \ {U})
                      \cup {[U EXCEPT !.email = req[w].idtok.email,
                                      !.name = IF req[w].idtok.name = Absent
                                               THEN @ ELSE req[w].idtok.name]}

\* C21: once subject id S was on file for user U, a later firebase-login
\* with S (whatever its email claim) is resolved by the subject-id lookup,
\* is answered with a token for U, and leaves S on no user other than U.
C21_StickyLink ==
    \A w \in Workers : DoneLogin(w) =>
        \A l \in links : l.uid = req[w].idtok.uid =>
            /\ SubjectHeld(snap[w], l.uid)
            /\ resp[w].status = StatusOK => resp[w].token.claims.user_id = l.id
            /\ \A u \in Live(users) : u.firebase_uid = l.uid => u.id = l.id

\* the error of the repository call that worker w's firebase-login is about
\* to make, "nil" when it is about to make none
PendingCallErr(w) ==
    CASE pc[w] = "fl_start" /\ FirebaseStart(req[w]) = NoResp ->
            LookupVia(storeUp, GetUserByFirebaseUID(users, req[w].idtok.uid)).err
      [] pc[w] = "fl_email" ->
            LookupVia(storeUp, GetUserByEmail(users, req[w].idtok.email)).err
      [] pc[w] = "fl_create" ->
            WriteVia(storeUp, users,
                     CreateUser(users, FirebaseNewUser(req[w].idtok, nextID))).err
      [] pc[w] = "fl_link" ->
            WriteVia(storeUp, users,
                     UpdateUser(users, FirebaseLinked(loc[w], req[w].idtok))).err
      [] pc[w] = "fl_refresh" ->
            WriteVia(storeUp, users,
                     UpdateUser(users, FirebaseRefreshed(loc[w], req[w].idtok))).err
      [] OTHER -> "nil"

\* C22: when a repository call of firebase-login fails with anything but
\* not-found, that call is the request's last: the request ends at once
\* with 500, no token is generated and the table is as before the call.
C22_StoreFailureEndsRequest ==
    [][\A w \in Workers :
          (PendingCallErr(w) \notin {"nil", ErrNotFound} /\ pc'[w] # pc[w]) =>
          /\ pc'[w] = "idle"
          /\ dbCalls'[w] = dbCalls[w] + 1
          /\ resp'[w].status = StatusInternalServerError
          /\ resp'[w].token = NoToken
          /\ issued' = issued
          /\ users' = users]_vars

\* the lookup by email failed during an outage, after the lookup by subject
\* id had answered not-found
C22_Witness ==
    \E w \in Workers :
        /\ Done(w, "firebase") /\ ~storeUp
        /\ resp[w] = [FirebaseLookupFailed EXCEPT !.at = now]
        /\ dbCalls[w] = 2

C24_LocalUsersCoexist ==
    \A w \in Workers :
        (/\ Done(w, "signup") /\ req[w].ok
         /\ ~EmailHeld(snap[w], req[w].email)
         /\ \E q \in Live(snap[w]) : q.firebase_uid = "") =>
        /\ resp[w].status = StatusCreated
        /\ \E u \in users : /\ users = snap[w] \cup {u} /\ u \notin snap[w]
                            /\ u.email = req[w].email /\ u.firebase_uid = ""

\* C25: a firebase-login whose verified token has a subject id and no email
\* claim performs the lookup by subject id and is answered by the handler
\* itself, not by the recovery from a fault raised before any lookup.
C25_EmailClaimOptional ==
    \A w \in Workers :
        (/\ Done(w, "firebase") /\ req[w].ok /\ req[w].idtok.valid
         /\ req[w].idtok.email = Absent) =>
        /\ dbCalls[w] >= 1
        /\ resp[w].msg # "Internal Server Error"

Verify(tok, t) == JWTAuthMiddleware(Header(2, "Bearer", tok), env, t)

\* C11: a well-formed token whose expiry lies in the past is turned away,
\* with a valid signature or not, and the answer tells expiry apart from a
\* malformed token and from an unexpired token with a wrong signature.
C11_ExpiredOutcomeDistinct ==
    \A w \in Workers :
        (/\ Done(w, "profile") /\ BearerShape(req[w].header)
         /\ req[w].header.cred.wf /\ req[w].header.cred.alg = "HS256"
         /\ req[w].header.cred.claims.exp < resp[w].at) =>
        LET tok == req[w].header.cred
            fresh == [tok.claims EXCEPT !.exp = resp[w].at + 1]
        IN  /\ resp[w].status = StatusUnauthorized /\ ~resp[w].next
            /\ resp[w].msg # Verify(Garbage, resp[w].at).msg
            /\ resp[w].msg #
                 Verify(MakeToken("HS256", fresh, AttackerSecret), resp[w].at).msg

\* C12: a well-formed, unexpired token signed with a key that is not the
\* server's is answered 401 "Invalid token signature" and the handler is
\* not called.
C12_WrongSecretInvalidSignature ==
    \A w \in Workers :
        (/\ Done(w, "profile") /\ BearerShape(req[w].header)
         /\ req[w].header.cred.wf /\ req[w].header.cred.alg = "HS256"
         /\ req[w].header.cred.sig.over = req[w].header.cred.claims
         /\ req[w].header.cred.sig.key # MiddlewareSecret(env)
         /\ resp[w].at < req[w].header.cred.claims.exp) =>
        /\ resp[w].status = StatusUnauthorized /\ ~resp[w].next
        /\ resp[w].msg = "Invalid token signature"

====
